---- MODULE Spec2Model ----
(***************************************************************************)
(* kube-rs, src/api/crds.rs: the CustomResource descriptor, its builder    *)
(* CrBuilder, and the conversion of a descriptor into a RawApi handle.     *)
(*                                                                         *)
(* Strings are TLA+ strings (Len, SubSeq and \o act on them), an           *)
(* Option<String> is <<>> (None) or <<s>> (Some(s)), and a panic is the    *)
(* value Panic.  A TLA+ string holds ASCII characters only, so the model   *)
(* covers ASCII kinds, groups, versions, namespaces and names: the         *)
(* Unicode-aware character classes of Rust (char::is_lowercase, ..., the   *)
(* regex class \w) are functions on the characters of ASCII and have no    *)
(* value anywhere else.                                                    *)
(***************************************************************************)
EXTENDS Naturals, Sequences, FiniteSets

VARIABLES pc, builder, cr, api, req, given, calls

vars == <<pc, builder, cr, api, req, given, calls>>

(***************************************************************************)
(* Strings and Option                                                      *)
(***************************************************************************)
None == <<>>

Some(s) == <<s>>

unwrap(o) == o[1]

Panic == [panic |-> TRUE]

CharAt(s, i) == SubSeq(s, i, i)

HasChar(set, c) == \E i \in 1..Len(set) : CharAt(set, i) = c

EndsWith(s, suf) ==
    /\ Len(s) >= Len(suf)
    /\ SubSeq(s, Len(s) - Len(suf) + 1, Len(s)) = suf

DropRight(s, n) == SubSeq(s, 1, Len(s) - n)

LOWER == "abcdefghijklmnopqrstuvwxyz"

UPPER == "ABCDEFGHIJKLMNOPQRSTUVWXYZ"

DIGITS == "0123456789"

\* The characters the model covers: printable ASCII, tab and newline.
ASCII ==
    " !\"#$%&'()*+,-./0123456789:;<=>?@ABCDEFGHIJKLMNOPQRSTUVWXYZ[\\]^_abcdefghijklmnopqrstuvwxyz{|}~\t\n"

AsciiChars == {CharAt(ASCII, i) : i \in 1..Len(ASCII)}

\* char::is_lowercase, is_uppercase, is_numeric and is_alphanumeric on the
\* characters of ASCII, where they are the ASCII classes; applying one to
\* any other character is an error, not FALSE.
is_lowercase(c) == [x \in AsciiChars |-> HasChar(LOWER, x)][c]

is_uppercase(c) == [x \in AsciiChars |-> HasChar(UPPER, x)][c]

is_numeric(c) == [x \in AsciiChars |-> HasChar(DIGITS, x)][c]

is_alphanumeric(c) ==
    [x \in AsciiChars |->
        HasChar(LOWER, x) \/ HasChar(UPPER, x) \/ HasChar(DIGITS, x)][c]

\* to_ascii_uppercase and to_ascii_lowercase change ASCII letters only
to_ascii_uppercase(c) ==
    IF HasChar(LOWER, c)
    THEN CharAt(UPPER, CHOOSE i \in 1..Len(LOWER) : CharAt(LOWER, i) = c)
    ELSE c

to_ascii_lowercase(c) ==
    IF HasChar(UPPER, c)
    THEN CharAt(LOWER, CHOOSE i \in 1..Len(UPPER) : CharAt(UPPER, i) = c)
    ELSE c

RECURSIVE str_to_ascii_lowercase(_)
str_to_ascii_lowercase(s) ==
    IF s = "" THEN ""
    ELSE str_to_ascii_lowercase(DropRight(s, 1))
             \o to_ascii_lowercase(CharAt(s, Len(s)))

(***************************************************************************)
(* inflector::cases::pascalcase (Inflector 0.11, imported at crds.rs:5)    *)
(***************************************************************************)
is_not_alphanumeric(c) == ~is_alphanumeric(c)

RECURSIVE trim_right(_)
trim_right(s) ==
    IF s # "" /\ is_not_alphanumeric(CharAt(s, Len(s)))
    THEN trim_right(DropRight(s, 1))
    ELSE s

\* CamelOptions of to_pascal_case
PascalOptions ==
    [new_word |-> TRUE, last_char |-> " ", first_word |-> FALSE,
     injectable_char |-> " ", has_seperator |-> FALSE, inverted |-> FALSE]

append_on_new_word(result, first_word, c, opt) ==
    LET sep == IF ~first_word /\ opt.has_seperator
               THEN result \o opt.injectable_char ELSE result
    IN  IF first_word \/ ~opt.inverted
        THEN sep \o to_ascii_uppercase(c)
        ELSE sep \o to_ascii_lowercase(c)

\* One turn of the loop of to_case_camel_like on character c; st holds the
\* loop's locals.
camel_step(st, c, opt) ==
    IF is_not_alphanumeric(c) /\ st.found_real_char
    THEN [st EXCEPT !.new_word = TRUE]
    ELSE IF ~st.found_real_char /\ is_not_alphanumeric(c)
    THEN st
    ELSE IF is_numeric(c)
    THEN [st EXCEPT !.found_real_char = TRUE, !.new_word = TRUE,
                    !.result = @ \o c]
    ELSE IF \/ st.new_word
            \/ /\ is_lowercase(st.last_char)
               /\ is_uppercase(c)
               /\ st.last_char # " "
    THEN [st EXCEPT !.found_real_char = TRUE, !.new_word = FALSE,
                    !.result = append_on_new_word(@, st.first_word, c, opt),
                    !.first_word = FALSE]
    ELSE [st EXCEPT !.found_real_char = TRUE, !.last_char = c,
                    !.result = @ \o to_ascii_lowercase(c)]

RECURSIVE camel_loop(_, _, _, _)
camel_loop(s, i, st, opt) ==
    IF i > Len(s) THEN st.result
    ELSE camel_loop(s, i + 1, camel_step(st, CharAt(s, i), opt), opt)

to_case_camel_like(s, opt) ==
    camel_loop(trim_right(s), 1,
               [new_word |-> opt.new_word, first_word |-> opt.first_word,
                last_char |-> opt.last_char, found_real_char |-> FALSE,
                result |-> ""],
               opt)

to_pascal_case(s) == to_case_camel_like(s, PascalOptions)

is_pascal_case(s) == to_pascal_case(s) = s

(***************************************************************************)
(* inflector::string::pluralize (Inflector 0.11, imported at crds.rs:5)    *)
(***************************************************************************)
\* Pattern elements: a literal, one character of a class, one character
\* outside a class.
L(s) == [k |-> "lit", s |-> s]

In(s) == [k |-> "in", s |-> s]

Not(s) == [k |-> "not", s |-> s]

ElemLen(e) == IF e.k = "lit" THEN Len(e.s) ELSE 1

RECURSIVE PatLen(_)
PatLen(pat) == IF pat = <<>> THEN 0 ELSE ElemLen(Head(pat)) + PatLen(Tail(pat))

ElemAt(s, i, e) ==
    CASE e.k = "lit" -> SubSeq(s, i, i + Len(e.s) - 1) = e.s
      [] e.k = "in"  -> HasChar(e.s, CharAt(s, i))
      [] e.k = "not" -> ~HasChar(e.s, CharAt(s, i))

\* s[i..] is exactly the pattern
RECURSIVE PatAt(_, _, _)
PatAt(s, i, pat) ==
    IF pat = <<>> THEN i = Len(s) + 1
    ELSE /\ i + ElemLen(Head(pat)) - 1 <= Len(s)
         /\ ElemAt(s, i, Head(pat))
         /\ PatAt(s, i + ElemLen(Head(pat)), Tail(pat))

\* the regex class \w, on the characters of ASCII
is_word_char(c) == c = "_" \/ is_alphanumeric(c)

\* Where the leftmost match of \w* that reaches position k starts.
WordStart(s, k) ==
    LET breaks == {j \in 1..(k - 1) : ~is_word_char(CharAt(s, j))}
    IN  IF breaks = {} THEN 1
        ELSE 1 + (CHOOSE j \in breaks : \A m \in breaks : m <= j)

\* A rule (\w*(stem))tail$ => rep: stems are the alternatives of the stem,
\* tails the alternatives of what follows capture group 1.
Rule(stems, tails, rep) == [stems |-> stems, tails |-> tails, rep |-> rep]

Lits(set) == {<<L(x)>> : x \in set}

RULES == <<
    Rule({<<>>}, {"s"}, "s"),
    Rule({<<Not("aeiou"), L("ese")>>}, {""}, ""),
    Rule(Lits({"ax", "test"}), {"is"}, "es"),
    Rule(Lits({"alias", "tlas", "gas", "ris"}) \cup {<<Not("aou"), L("us")>>},
         {""}, "es"),
    Rule({<<L("e"), In("mn"), L("u")>>}, {"s", ""}, "s"),
    Rule({<<Not("l"), L("ias")>>, <<In("aeiou"), L("las")>>,
          <<In("emjzr"), L("as")>>, <<In("iu"), L("am")>>}, {""}, ""),
    Rule(Lits({"alumn", "syllab", "octop", "vir", "radi", "nucle", "fung",
               "cact", "stimul", "termin", "bacill", "foc", "uter", "loc",
               "strat"}), {"us", "i"}, "i"),
    Rule(Lits({"alumn", "alg", "vertebr"}), {"a", "ae"}, "ae"),
    Rule(Lits({"seraph", "cherub"}), {"im", ""}, "im"),
    Rule(Lits({"her", "at", "gr"}), {"o"}, "oes"),
    Rule(Lits({"agend", "addend", "millenni", "dat", "extrem", "bacteri",
               "desiderat", "strat", "candelabr", "errat", "ov", "symposi",
               "curricul", "automat", "quor"}), {"a", "um"}, "a"),
    Rule(Lits({"apheli", "hyperbat", "periheli", "asyndet", "noumen",
               "phenomen", "criteri", "organ", "prolegomen", "hedr",
               "automat"}), {"a", "on"}, "a"),
    Rule({<<>>}, {"sis"}, "ses"),
    Rule(Lits({"kni", "wi", "li"}), {"fe"}, "ves"),
    Rule(Lits({"ar", "l", "ea", "eo", "oa", "hoo"}), {"f"}, "ves"),
    Rule({<<Not("aeiouy")>>, <<L("qu")>>}, {"y"}, "ies"),
    Rule({<<Not("ch"), In("ieo"), In("ln")>>}, {"ey"}, "ies"),
    Rule(Lits({"xes", "ches", "sses", "shes", "zzes"}), {""}, ""),
    Rule(Lits({"x", "ch", "ss", "sh", "zz"}), {""}, "es"),
    Rule(Lits({"matr", "cod", "mur", "sil", "vert", "ind", "append"}),
         {"ix", "ex"}, "ices"),
    Rule(Lits({"m", "l"}), {"ice", "ouse"}, "ice"),
    Rule(Lits({"pe"}), {"rson", "ople"}, "ople"),
    Rule(Lits({"child"}), {"ren", ""}, "ren"),
    Rule(Lits({"eaux"}), {""}, "")
>>

\* The tails and stems with which rule r matches s (regex captures)
RuleMatches(r, s) ==
    {m \in r.tails \X r.stems :
        /\ EndsWith(s, m[1])
        /\ Len(s) - Len(m[1]) >= PatLen(m[2])
        /\ PatAt(DropRight(s, Len(m[1])),
                 Len(s) - Len(m[1]) - PatLen(m[2]) + 1, m[2])}

\* Capture group 1 of the rule's match of s: \w* is greedy
Capture(r, s) ==
    LET ms == RuleMatches(r, s)
        m  == CHOOSE x \in ms : \A y \in ms : Len(y[1]) >= Len(x[1])
        e  == Len(s) - Len(m[1])
    IN  SubSeq(s, WordStart(s, e - PatLen(m[2]) + 1), e)

\* Uncountable words (excerpt of inflector's UNACCOUNTABLE_WORDS)
UNACCOUNTABLE_WORDS ==
    {"advice", "aircraft", "chaos", "chess", "equipment", "information",
     "money", "news", "rice", "sheep", "series", "species", "vengeance",
     "yoga"}

special_cases ==
    {<<"ox", "oxen">>, <<"man", "men">>, <<"woman", "women">>,
     <<"die", "dice">>, <<"yes", "yeses">>, <<"foot", "feet">>,
     <<"eave", "eaves">>, <<"goose", "geese">>, <<"tooth", "teeth">>,
     <<"quiz", "quizzes">>}

\* for rule in RULES.iter().rev(): the first rule that captures decides
RECURSIVE apply_rules(_, _)
apply_rules(s, i) ==
    IF i = 0 THEN s \o "s"
    ELSE IF RuleMatches(RULES[i], s) # {}
    THEN Capture(RULES[i], s) \o RULES[i].rep
    ELSE apply_rules(s, i - 1)

pluralize(s) ==
    IF s \in UNACCOUNTABLE_WORDS THEN s
    ELSE IF \E c \in special_cases : c[1] = s
    THEN (CHOOSE c \in special_cases : c[1] = s)[2]
    ELSE apply_rules(s, Len(RULES))

\* to_plural, with the words the model passes to it pluralized once
PluralCache ==
    {<<s, pluralize(s)>> :
        s \in {"", "s", "Foo", "foo", "Foos", "foos", "Foo_bar", "foo_bar"}}

to_plural(s) ==
    IF \E p \in PluralCache : p[1] = s
    THEN (CHOOSE p \in PluralCache : p[1] = s)[2]
    ELSE pluralize(s)

(***************************************************************************)
(* Inputs                                                                  *)
(***************************************************************************)
MaxBuilders == 2

Ids == 1..MaxBuilders

Kinds == {"", "Foo", "Foos", "foo", "Foo_bar"}

Groups == {"", "clux.dev"}

\* The version and the namespace of the chains that go on to make
\* requests; the setters are given a second value of each in the logged
\* chains below
Versions == {"v1"}

Namespaces == {"myns"}

\* The arguments of the logged builder chains (SettersSpec): two values of
\* every field, so that a setter called again is given another value
SetterGroups == Groups

SetterVersions == Versions \cup {"v2"}

SetterNamespaces == Namespaces \cup {"other"}

\* The most setter calls a logged builder chain makes
MaxCalls == 4

Names == {"baz"}

Payloads == {"{}"}

Clients == {"client"}

NoValue == [none |-> TRUE]

(***************************************************************************)
(* CrBuilder and CustomResource (crds.rs)                                  *)
(***************************************************************************)
\* #[derive(Default)] struct CrBuilder
CrBuilder_default ==
    [kind |-> "", version |-> None, group |-> None, namespace |-> None]

new(kind) ==
    IF ~(to_plural(kind) # kind) THEN Panic
    ELSE IF ~is_pascal_case(kind) THEN Panic
    ELSE [CrBuilder_default EXCEPT !.kind = kind]

CustomResource_new(kind) == new(kind)

group(self, g) == [self EXCEPT !.group = Some(g)]

\* version() at fault: keeps a version that is already set
version_keep_first(self, v) ==
    IF self.version = None THEN [self EXCEPT !.version = Some(v)] ELSE self

version(self, v) == [self EXCEPT !.version = Some(v)]

\* within() at fault: the namespace is not stored
within_ignored(self, ns) == self

within(self, ns) == [self EXCEPT !.namespace = Some(ns)]

\* build() at fault: a missing group defaults to the empty group
build_defaulting(self) ==
    IF self.version = None THEN Panic
    ELSE LET v == unwrap(self.version)
             g == IF self.group = None THEN "" ELSE unwrap(self.group)
         IN  [api_version |-> g \o "/" \o v,
              kind        |-> self.kind,
              version     |-> v,
              group       |-> g,
              namespace   |-> self.namespace]

build(self) ==
    IF self.version = None THEN Panic
    ELSE IF self.group = None THEN Panic
    ELSE LET v == unwrap(self.version)
             g == unwrap(self.group)
         IN  [api_version |-> g \o "/" \o v,
              kind        |-> self.kind,
              version     |-> v,
              group       |-> g,
              namespace   |-> self.namespace]

\* from() at fault: api_version is derived again from group and version
from_rederived(c) ==
    [api_version |-> IF c.group = "" THEN c.version
                     ELSE c.group \o "/" \o c.version,
     kind        |-> c.kind,
     group       |-> c.group,
     version     |-> c.version,
     namespace   |-> c.namespace,
     phantom     |-> "PhantomData"]

\* from() at fault: the namespace is not copied
from_cluster_scoped(c) ==
    [api_version |-> c.api_version,
     kind        |-> c.kind,
     group       |-> c.group,
     version     |-> c.version,
     namespace   |-> None,
     phantom     |-> "PhantomData"]

from(c) ==
    [api_version |-> c.api_version,
     kind        |-> c.kind,
     group       |-> c.group,
     version     |-> c.version,
     namespace   |-> c.namespace,
     phantom     |-> "PhantomData"]

to_api(c, client) ==
    [client |-> client, api |-> from(c), phantom |-> "PhantomData"]

(***************************************************************************)
(* RawApi requests (api/raw.rs, known here through the routing rule and    *)
(* through the test raw_custom_resource)                                   *)
(***************************************************************************)
PostParams_default == "PostParams::default()"

PatchParams_default == "PatchParams::default()"

\* the query pairs of an option set: absent options contribute nothing
query_pairs(params) == <<>>

RECURSIVE join_pairs(_)
join_pairs(pairs) ==
    IF pairs = <<>> THEN ""
    ELSE IF Len(pairs) = 1 THEN Head(pairs)
    ELSE Head(pairs) \o "&" \o join_pairs(Tail(pairs))

\* the request URI: the "?" is written before the pairs, whether or not
\* there are any
\* request_uri at fault: no "?" is written when there are no pairs
request_uri_omitting(url, pairs) ==
    IF pairs = <<>> THEN url ELSE url \o "?" \o join_pairs(pairs)

request_uri(url, pairs) == url \o "?" \o join_pairs(pairs)

make_url(self) ==
    LET prefix   == IF self.group = "" THEN "/api" ELSE "/apis"
        resource == to_plural(str_to_ascii_lowercase(self.kind))
    IN  IF self.namespace # None
        THEN prefix \o "/" \o self.api_version \o "/namespaces/"
                 \o unwrap(self.namespace) \o "/" \o resource
        ELSE prefix \o "/" \o self.api_version \o "/" \o resource

create(self, pp, data) ==
    [method |-> "POST",
     uri    |-> request_uri(make_url(self), query_pairs(pp)),
     body   |-> data]

patch(self, name, pp, data) ==
    [method |-> "PATCH",
     uri    |-> request_uri(make_url(self) \o "/" \o name, query_pairs(pp)),
     body   |-> data]

(***************************************************************************)
(* State                                                                   *)
(*   pc[b]      where chain b stands: "start", "builder" (a CrBuilder is   *)
(*              held), "new_panic", "build_panic", "built" (a              *)
(*              CustomResource is held), "raw" (it was moved into a        *)
(*              RawApi), "typed" (it was moved into an Api)                *)
(*   builder[b] the CrBuilder of chain b while pc[b] = "builder"           *)
(*   cr[b]      the CustomResource build() returned in chain b; the value  *)
(*              is kept after it is moved into a handle                    *)
(*   api[b]     the RawApi or Api made from cr[b]                          *)
(*   req        the last request made, with the call that made it          *)
(*   given[b]   history: the argument last given to each call of chain b   *)
(*   calls      history: the setter calls of a logged builder chain, in     *)
(*              the order they were made, each <<setter, argument>>; it    *)
(*              stays empty when the chains are not logged                 *)
(***************************************************************************)
NoCalls == [kind |-> None, group |-> None, version |-> None, within |-> None]

Init ==
    /\ pc = [b \in Ids |-> "start"]
    /\ builder = [b \in Ids |-> NoValue]
    /\ cr = [b \in Ids |-> NoValue]
    /\ api = [b \in Ids |-> NoValue]
    /\ req = NoValue
    /\ given = [b \in Ids |-> NoCalls]
    /\ calls = <<>>

New(b, kind) ==
    /\ pc[b] = "start"
    /\ LET r == CustomResource_new(kind)
       IN  IF r = Panic
           THEN /\ pc' = [pc EXCEPT ![b] = "new_panic"]
                /\ UNCHANGED builder
           ELSE /\ pc' = [pc EXCEPT ![b] = "builder"]
                /\ builder' = [builder EXCEPT ![b] = r]
    /\ given' = [given EXCEPT ![b].kind = Some(kind)]
    /\ UNCHANGED <<cr, api, req, calls>>

\* self.group(g) on the builder of chain b
SetGroup(b, g) ==
    /\ pc[b] = "builder"
    /\ builder' = [builder EXCEPT ![b] = group(builder[b], g)]
    /\ given' = [given EXCEPT ![b].group = Some(g)]
    /\ UNCHANGED <<pc, cr, api, req>>

Group(b, g) ==
    /\ SetGroup(b, g)
    /\ UNCHANGED calls

\* self.version(v) on the builder of chain b
SetVersion(b, v) ==
    /\ pc[b] = "builder"
    /\ builder' = [builder EXCEPT ![b] = version(builder[b], v)]
    /\ given' = [given EXCEPT ![b].version = Some(v)]
    /\ UNCHANGED <<pc, cr, api, req>>

Version(b, v) ==
    /\ SetVersion(b, v)
    /\ UNCHANGED calls

\* self.within(ns) on the builder of chain b
SetWithin(b, ns) ==
    /\ pc[b] = "builder"
    /\ builder' = [builder EXCEPT ![b] = within(builder[b], ns)]
    /\ given' = [given EXCEPT ![b].within = Some(ns)]
    /\ UNCHANGED <<pc, cr, api, req>>

Within(b, ns) ==
    /\ SetWithin(b, ns)
    /\ UNCHANGED calls

\* Build at fault: every descriptor still held shares the storage of the
\* one just built
BuildShared(b) ==
    /\ pc[b] = "builder"
    /\ LET r == build(builder[b])
       IN  IF r = Panic
           THEN /\ pc' = [pc EXCEPT ![b] = "build_panic"]
                /\ UNCHANGED cr
           ELSE /\ pc' = [pc EXCEPT ![b] = "built"]
                /\ cr' = [c \in Ids |->
                             IF c = b \/ pc[c] = "built" THEN r ELSE cr[c]]
    /\ builder' = [builder EXCEPT ![b] = NoValue]
    /\ UNCHANGED <<api, req, given, calls>>

\* build(self) consumes the builder
Build(b) ==
    /\ pc[b] = "builder"
    /\ LET r == build(builder[b])
       IN  IF r = Panic
           THEN /\ pc' = [pc EXCEPT ![b] = "build_panic"]
                /\ UNCHANGED cr
           ELSE /\ pc' = [pc EXCEPT ![b] = "built"]
                /\ cr' = [cr EXCEPT ![b] = r]
    /\ builder' = [builder EXCEPT ![b] = NoValue]
    /\ UNCHANGED <<api, req, given, calls>>

\* .into(): From<CustomResource> for RawApi<K>
Into(b) ==
    /\ pc[b] = "built"
    /\ api' = [api EXCEPT ![b] = from(cr[b])]
    /\ pc' = [pc EXCEPT ![b] = "raw"]
    /\ UNCHANGED <<builder, cr, req, given, calls>>

ToApi(b, client) ==
    /\ pc[b] = "built"
    /\ api' = [api EXCEPT ![b] = to_api(cr[b], client)]
    /\ pc' = [pc EXCEPT ![b] = "typed"]
    /\ UNCHANGED <<builder, cr, req, given, calls>>

Create(b, data) ==
    /\ pc[b] = "raw"
    /\ req' = [from |-> b, verb |-> "create", name |-> "", data |-> data,
               request |-> create(api[b], PostParams_default, data)]
    /\ UNCHANGED <<pc, builder, cr, api, given, calls>>

Patch(b, name, data) ==
    /\ pc[b] = "raw"
    /\ req' = [from |-> b, verb |-> "patch", name |-> name, data |-> data,
               request |-> patch(api[b], name, PatchParams_default, data)]
    /\ UNCHANGED <<pc, builder, cr, api, given, calls>>

Next ==
    \/ \E b \in Ids, kind \in Kinds : New(b, kind)
    \/ \E b \in Ids, g \in Groups : Group(b, g)
    \/ \E b \in Ids, v \in Versions : Version(b, v)
    \/ \E b \in Ids, ns \in Namespaces : Within(b, ns)
    \/ \E b \in Ids : Build(b)
    \/ \E b \in Ids : Into(b)
    \/ \E b \in Ids, client \in Clients : ToApi(b, client)
    \/ \E b \in Ids, data \in Payloads : Create(b, data)
    \/ \E b \in Ids, name \in Names, data \in Payloads : Patch(b, name, data)

Spec == Init /\ [][Next]_vars

(***************************************************************************)
(* A logged builder chain: one chain goes from new() through any sequence  *)
(* of at most MaxCalls setter calls to build(), and every setter call is   *)
(* appended to calls.  The other chains have not started.                  *)
(***************************************************************************)
Logged(b) == \A c \in Ids \ {b} : pc[c] = "start"

LoggedNew(b, kind) ==
    /\ Logged(b)
    /\ New(b, kind)

LoggedGroup(b, g) ==
    /\ Logged(b)
    /\ Len(calls) < MaxCalls
    /\ SetGroup(b, g)
    /\ calls' = Append(calls, <<"group", g>>)

LoggedVersion(b, v) ==
    /\ Logged(b)
    /\ Len(calls) < MaxCalls
    /\ SetVersion(b, v)
    /\ calls' = Append(calls, <<"version", v>>)

LoggedWithin(b, ns) ==
    /\ Logged(b)
    /\ Len(calls) < MaxCalls
    /\ SetWithin(b, ns)
    /\ calls' = Append(calls, <<"within", ns>>)

LoggedBuild(b) ==
    /\ Logged(b)
    /\ Build(b)

SettersNext ==
    \/ \E b \in Ids, kind \in Kinds : LoggedNew(b, kind)
    \/ \E b \in Ids, g \in SetterGroups : LoggedGroup(b, g)
    \/ \E b \in Ids, v \in SetterVersions : LoggedVersion(b, v)
    \/ \E b \in Ids, ns \in SetterNamespaces : LoggedWithin(b, ns)
    \/ \E b \in Ids : LoggedBuild(b)

SettersSpec == Init /\ [][SettersNext]_vars

(***************************************************************************)
(* Properties                                                              *)
(***************************************************************************)
Built(b) == pc[b] \in {"built", "raw", "typed"}

BuildCalled(b) == pc[b] \in {"build_panic", "built", "raw", "typed"}

\* the RawApi of chain b: an Api holds it in its field api
RawOf(b) == IF pc[b] = "typed" THEN api[b].api ELSE api[b]

StartsWith(s, pre) == Len(s) >= Len(pre) /\ SubSeq(s, 1, Len(pre)) = pre

Occurrences(s, sub) ==
    {i \in 1..(Len(s) - Len(sub) + 1) : SubSeq(s, i, i + Len(sub) - 1) = sub}

Contains(s, sub) == Occurrences(s, sub) # {}

\* the path and the query of a request URI: what precedes and what follows
\* the first "?"
FirstMark(uri) ==
    CHOOSE i \in Occurrences(uri, "?") : \A j \in Occurrences(uri, "?") : i <= j

PathOf(uri) ==
    IF Contains(uri, "?") THEN SubSeq(uri, 1, FirstMark(uri) - 1) ELSE uri

QueryOf(uri) ==
    IF Contains(uri, "?") THEN SubSeq(uri, FirstMark(uri) + 1, Len(uri)) ELSE ""

\* the collection path the routing rule gives for kind k, group g,
\* apiVersion av and optional namespace ns
CollectionPath(k, g, av, ns) ==
    (IF g = "" THEN "/api" ELSE "/apis") \o "/" \o av
        \o (IF ns = None THEN "" ELSE "/namespaces/" \o unwrap(ns))
        \o "/" \o to_plural(str_to_ascii_lowercase(k))

\* a kind the spec calls valid: non-empty, not its own plural, PascalCase
ValidKind(k) == k # "" /\ to_plural(k) # k /\ is_pascal_case(k)

KindGiven(b) == unwrap(given[b].kind)

\* The positions in calls of the calls of setter f
CallsOf(f) == {i \in 1..Len(calls) : calls[i][1] = f}

\* The argument of the last call of setter f, None when it was never called
LastGiven(f) ==
    IF CallsOf(f) = {} THEN None
    ELSE Some(calls[CHOOSE i \in CallsOf(f) : \A j \in CallsOf(f) : j <= i][2])

\* C1: for a valid kind, whenever group(g) and version(v) were given,
\* build() succeeds and the descriptor's api_version is v when g is empty
\* and g + "/" + v otherwise.
C1_ApiVersionOmitsEmptyGroup ==
    \A b \in Ids :
        (/\ BuildCalled(b) /\ ValidKind(KindGiven(b))
         /\ given[b].group # None /\ given[b].version # None)
        => /\ Built(b)
           /\ LET g == unwrap(given[b].group)
                  v == unwrap(given[b].version)
              IN  cr[b].api_version = IF g = "" THEN v ELSE g \o "/" \o v

\* C2: build() panics and produces no descriptor whenever group() or
\* version() was never called, whatever else was called; no default stands in.
C2_BuildNeedsGroupAndVersion ==
    \A b \in Ids :
        (BuildCalled(b) /\ (given[b].group = None \/ given[b].version = None))
        => /\ pc[b] = "build_panic"
           /\ cr[b] = NoValue
           /\ api[b] = NoValue

C2_Witness ==
    \E a, b \in Ids :
        /\ pc[a] = "build_panic" /\ given[a].group = None
        /\ given[a].version # None /\ given[a].within # None
        /\ pc[b] = "build_panic" /\ given[b].version = None
        /\ given[b].group # None

\* C3: new(kind) fails when kind is empty, equals its plural or is not
\* PascalCase; otherwise it returns a builder holding exactly kind, with
\* group, version and namespace unset.
C3_NewRejectsBadKind ==
    \A b \in Ids :
        given[b].kind # None =>
            LET k == unwrap(given[b].kind)
            IN  IF k = "" \/ to_plural(k) = k \/ ~is_pascal_case(k)
                THEN pc[b] = "new_panic" /\ builder[b] = NoValue
                ELSE /\ pc[b] # "new_panic"
                     /\ (/\ pc[b] = "builder"
                         /\ given[b].group = None
                         /\ given[b].version = None
                         /\ given[b].within = None)
                        => builder[b] = [kind |-> k, version |-> None,
                                         group |-> None, namespace |-> None]

\* C4 as stated: with default parameters the URI of a create or patch
\* request (here: on a descriptor of a valid kind and a named group) does
\* not end in a bare "?".
C4_NoTrailingSeparator ==
    (/\ req # NoValue /\ ValidKind(KindGiven(req.from))
     /\ cr[req.from].group # "")
    => ~EndsWith(req.request.uri, "?")

\* C4 as amended: with default parameters the URI of a create or patch
\* request is its path followed by exactly one "?" and an empty query.
C4_EmptyQueryAfterSeparator ==
    req # NoValue =>
        LET uri == req.request.uri
        IN  /\ Cardinality(Occurrences(uri, "?")) = 1
            /\ QueryOf(uri) = ""
            /\ uri = PathOf(uri) \o "?"

C4_Witness ==
    /\ req # NoValue
    /\ req.verb = "create"
    /\ req.request.uri = "/apis/clux.dev/v1/foos?"

\* C5: create is a POST to the collection path: prefix, apiVersion, then
\* "namespaces/{ns}" exactly when within(ns) was called, then the plural of
\* the lowercased kind.
C5_CreateTargetsCollection ==
    (req # NoValue /\ req.verb = "create") =>
        LET b    == req.from
            path == PathOf(req.request.uri)
        IN  /\ req.request.method = "POST"
            /\ path = CollectionPath(unwrap(given[b].kind),
                                     unwrap(given[b].group),
                                     cr[b].api_version, given[b].within)
            /\ Contains(path, "/namespaces/") <=> cr[b].namespace # None
            /\ (/\ given[b].kind = Some("Foo")
                /\ given[b].group = Some("clux.dev")
                /\ given[b].version = Some("v1"))
               => path = IF given[b].within = Some("myns")
                         THEN "/apis/clux.dev/v1/namespaces/myns/foos"
                         ELSE "/apis/clux.dev/v1/foos"

C5_Witness ==
    /\ req # NoValue
    /\ req.verb = "create"
    /\ given[req.from].within = Some("myns")
    /\ PathOf(req.request.uri) = "/apis/clux.dev/v1/namespaces/myns/foos"

\* C6: patch is a PATCH to the descriptor's collection path followed by "/"
\* and the name, and its body is the payload given.
C6_PatchTargetsItem ==
    (req # NoValue /\ req.verb = "patch") =>
        LET d == cr[req.from]
        IN  /\ req.request.method = "PATCH"
            /\ PathOf(req.request.uri) =
                   CollectionPath(d.kind, d.group, d.api_version, d.namespace)
                       \o "/" \o req.name
            /\ req.request.body = req.data

C6_Witness ==
    /\ req # NoValue
    /\ req.verb = "patch"
    /\ req.name = "baz"
    /\ req.request.method = "PATCH"
    /\ req.request.body = "{}"
    /\ PathOf(req.request.uri) = "/apis/clux.dev/v1/namespaces/myns/foos/baz"

\* C7: for a valid kind, a path starts with "/api/" when the group is empty
\* and with "/apis/" otherwise, the apiVersion follows and no path segment
\* is empty: group "", version "v1", kind "Foo" is routed to "/api/v1/foos".
C7_CoreGroupPath ==
    (req # NoValue /\ ValidKind(KindGiven(req.from))) =>
        LET d    == cr[req.from]
            path == PathOf(req.request.uri)
        IN  /\ d.group = "" => StartsWith(path, "/api/")
            /\ d.group # "" => StartsWith(path, "/apis/")
            /\ ~Contains(path, "//")
            /\ (/\ d.group = "" /\ d.version = "v1" /\ d.kind = "Foo"
                /\ d.namespace = None /\ req.verb = "create")
               => path = "/api/v1/foos"

\* C8: once build() has returned a descriptor, no later operation on any
\* builder changes it.
C8_DescriptorImmutable ==
    [][\A b \in Ids : Built(b) => cr'[b] = cr[b]]_vars

C8_Witness ==
    \E a, b \in Ids :
        /\ Built(a) /\ pc[b] = "builder"
        /\ builder[b].kind = cr[a].kind
        /\ builder[b].group # None
        /\ unwrap(builder[b].group) # cr[a].group
        /\ builder[b].namespace # cr[a].namespace

\* C9: under any sequence of setter calls, a builder's fields, and the
\* descriptor built from it, are the kind given to new and, for group,
\* version and within, the argument of the last call of that setter,
\* whatever was given to it before and wherever the calls of the other
\* setters stand in the sequence; the namespace is absent when within was
\* never called.
C9_LastValuePerField ==
    \A b \in Ids :
        /\ pc[b] = "builder" =>
               builder[b] = [kind      |-> KindGiven(b),
                             version   |-> LastGiven("version"),
                             group     |-> LastGiven("group"),
                             namespace |-> LastGiven("within")]
        /\ Built(b) =>
               /\ cr[b].kind = KindGiven(b)
               /\ cr[b].group = unwrap(LastGiven("group"))
               /\ cr[b].version = unwrap(LastGiven("version"))
               /\ cr[b].namespace = LastGiven("within")
               /\ cr[b].api_version =
                      unwrap(LastGiven("group")) \o "/"
                          \o unwrap(LastGiven("version"))

\* within() is called first and group() between two calls of version()
\* that are given different values
C9_Witness ==
    \E b \in Ids :
        /\ Built(b)
        /\ calls = << <<"within", "other">>, <<"version", "v1">>,
                      <<"group", "clux.dev">>, <<"version", "v2">> >>
        /\ cr[b].version = "v2"
        /\ cr[b].group = "clux.dev"
        /\ cr[b].namespace = Some("other")
        /\ cr[b].api_version = "clux.dev/v2"

\* C10: the handle made from a descriptor holds the descriptor's kind,
\* group, version, api_version and namespace unchanged; api_version is the
\* one build() computed.
C10_HandleCopiesDescriptor ==
    \A b \in Ids :
        pc[b] \in {"raw", "typed"} =>
            LET h == RawOf(b)
            IN  /\ h.kind = cr[b].kind
                /\ h.group = cr[b].group
                /\ h.version = cr[b].version
                /\ h.api_version = cr[b].api_version
                /\ h.namespace = cr[b].namespace

C10_Witness ==
    \E a, b \in Ids :
        /\ pc[a] = "typed" /\ api[a].api.namespace = Some("myns")
        /\ api[a].api.group = ""
        /\ pc[b] = "raw" /\ api[b].namespace = None

====
